---- MODULE Spec2Model ----
(***************************************************************************)
(* Metallicity_Stack_Commons: the error-propagation pipeline               *)
(* (analysis/error_prop.py), the flux-ratio builder (analysis/ratios.py),  *)
(* the temperature / metallicity formulas                                  *)
(* (analysis/temp_metallicity_calc.py) and the Balmer-decrement dust step  *)
(* (analysis/attenuation.py), as a state machine over one process that     *)
(* runs the operations one after another on a shared directory of files.   *)
(*                                                                         *)
(* Arrays are modelled by what the control flow and the file contents      *)
(* depend on: their shape, the rows they cover and, for the flux table,    *)
(* integer flux values.  Python exceptions are modelled as outcomes: an    *)
(* operation that raises ends the run in pc = "aborted" with the exception *)
(* recorded in error.                                                      *)
(***************************************************************************)
EXTENDS Integers, Sequences, FiniteSets, TLC

VARIABLES
    detection,      \* Detection column of the validation table on disk
    rms,            \* <line>_RMS column of the flux table on disk (per row)
    fs,             \* the directory: path -> [origin, keys]
    disk_flux_rev,  \* Flux_Gaussian columns of the revised flux table as last written
    dust0,          \* column_names.dust0, a process-wide list of names
    op,             \* operation in progress
    args,           \* its arguments
    pc,             \* position in the operation
    aa,             \* loop index of the randomization loop
    flux_tab0,      \* flux table in memory
    prop_tab0,      \* derived-property table in memory
    detect_idx,     \* np.where(detection == 1)[0]
    flux_tab,       \* flux_tab0[detect_idx]
    flux_pdf_dict,  \* line -> ensemble
    flux_peak_dict, \* line -> peak per detected row
    flux_error_dict,\* line -> error per detected row
    sampled,        \* rows handed to random_pdf / compute_onesig_pdf in this run
    log,            \* messages printed in this run
    written,        \* paths written in this run
    stages,         \* stages of this run, in the order they completed
    error,          \* exception that ended the run
    fs0,            \* the directory when the run started
    fn              \* last direct application of a formula (SpecFn)

vars == <<detection, rms, fs, disk_flux_rev, dust0, op, args, pc, aa,
          flux_tab0, prop_tab0, detect_idx, flux_tab, flux_pdf_dict,
          flux_peak_dict, flux_error_dict, sampled, log, written, stages,
          error, fs0, fn>>

-----------------------------------------------------------------------------
(* Bounds of the model *)

NRows   == 2    \* rows of every table
NDraws  == 2    \* draws per ensemble row (the code asks for n_iter = 1000)
MaxComposite == 2  \* cap on the '_composite' suffixes a name of dust0 carries

Rows  == 0 .. (NRows - 1)
Draws == 0 .. (NDraws - 1)

-----------------------------------------------------------------------------
(* Names *)

line_name == <<"OII_3727", "HDELTA", "HGAMMA", "OIII_4363", "HBETA",
               "OIII_4958", "OIII_5007">>

NLines == Len(line_name)

LineSet == {line_name[i] : i \in 1 .. NLines}

\* A column or key name: a base string, ncomp '_composite' suffixes appended to
\* it, and the suffix a table or archive column adds ('_peak', '_RMS', ...).
Name(base) == [base |-> base, ncomp |-> 0, sfx |-> ""]

Composite(base) == [base |-> base, ncomp |-> 1, sfx |-> ""]

\* base + sfx
Suffixed(base, sfx) == [base |-> base, ncomp |-> 0, sfx |-> sfx]

\* str.replace('_composite', '')
StripComposite(n) == [n EXCEPT !.ncomp = 0]

\* name += '_composite'
AddComposite(n) == [n EXCEPT !.ncomp = @ + 1]

line_name_short == [OII |-> "OII_3727", OIII |-> "OIII_5007", HB |-> "HBETA",
                    HG |-> "HGAMMA", HD |-> "HDELTA", O4363 |-> "OIII_4363"]

bin_ratios0 == <<Composite("logR23"), Composite("logO32"), Composite("two_beta"),
                 Composite("three_beta"), Composite("R")>>

dust0_init == <<Name("EBV"), Name("HgHb"), Name("HdHb")>>

temp_metal_names0 == <<"T_e", "12+log(O/H)", "log(O+/H)", "log(O++/H)",
                       "O+/H", "O++/H">>

remove_from_list(list, drop) == SelectSeq(list, LAMBDA x : x \notin drop)

bin_names0 == <<"bin_ID", "N_stack", "Detection">>

\* filename_dict / npz_filename_dict: each key names one file of the directory.
TablePaths == {"bin_fit", "bin_derived_prop", "bin_valid", "bin_valid_rev",
               "bin_fit_rev", "bin_derived_prop_rev", "bin_derived_prop_rev_dust"}

NpzPaths == {"flux_pdf", "flux_errors", "flux_peak",
             "der_prop_pdf", "der_prop_errors", "der_prop_peak"}

Paths == TablePaths \cup NpzPaths

InputPaths == {"bin_fit", "bin_derived_prop", "bin_valid", "bin_valid_rev"}

OutputPaths == Paths \ {"bin_fit", "bin_valid", "bin_valid_rev"}

-----------------------------------------------------------------------------
(* Python calls: a call binds to a signature or raises TypeError *)

\* def R_calculation(OIII4363, OIII5007, EBV)
Sig_R_calculation ==
    [params |-> <<"OIII4363", "OIII5007", "EBV">>, required |-> 3]

\* def temp_calculation(R)
Sig_temp_calculation == [params |-> <<"R">>, required |-> 1]

\* def metallicity_calculation(T_e, TWO_BETA, THREE_BETA, det3=None)
Sig_metallicity_calculation ==
    [params |-> <<"T_e", "TWO_BETA", "THREE_BETA", "det3">>, required |-> 3]

\* def compute_EBV(fitspath, use_revised=False)
Sig_compute_EBV == [params |-> <<"fitspath", "use_revised">>, required |-> 1]

\* Python's argument binding: no more positionals than parameters, every
\* keyword names a parameter not already bound, no required parameter unbound.
Binds(sig, call) ==
    /\ call.npos <= Len(sig.params)
    /\ \A k \in call.kw :
          \E i \in (call.npos + 1) .. Len(sig.params) : sig.params[i] = k
    /\ \A i \in 1 .. sig.required :
          i <= call.npos \/ sig.params[i] \in call.kw

\* The calls the code makes.
Call_R_in_flux_ratios       == [npos |-> 2, kw |-> {}]        \* ratios.py:60
Call_temp_raw               == [npos |-> 1, kw |-> {}]        \* error_prop.py:100
Call_metal_raw              == [npos |-> 3, kw |-> {}]        \* error_prop.py:102
Call_EBV_randomized         == [npos |-> 1, kw |-> {"source"}] \* error_prop.py:165
Call_temp_randomized        == [npos |-> 1, kw |-> {"EBV"}]   \* error_prop.py:179
Call_metal_randomized       == [npos |-> 3, kw |-> {"EBV"}]   \* error_prop.py:183

-----------------------------------------------------------------------------
(* numpy arrays by shape: <<n>> is a vector, <<n, k>> an ensemble, <<>> a   *)
(* scalar; BadShape is the result of an operation numpy refuses.           *)

BadShape == <<-1>>

MaxOf(a, b) == IF a >= b THEN a ELSE b

PadShape(s, n) ==
    [i \in 1 .. n |-> IF i <= n - Len(s) THEN 1 ELSE s[i - (n - Len(s))]]

\* Shape of an elementwise binary operation (numpy broadcasting).
Broadcast(s, t) ==
    IF s = BadShape \/ t = BadShape THEN BadShape
    ELSE LET n  == MaxOf(Len(s), Len(t))
             ps == PadShape(s, n)
             pt == PadShape(t, n)
         IN  IF \A i \in 1 .. n : ps[i] = pt[i] \/ ps[i] = 1 \/ pt[i] = 1
             THEN [i \in 1 .. n |-> IF ps[i] = 1 THEN pt[i] ELSE ps[i]]
             ELSE BadShape

RECURSIVE StripLeadingOnes(_, _)
StripLeadingOnes(v, n) ==
    IF Len(v) > n /\ v[1] = 1 THEN StripLeadingOnes(Tail(v), n) ELSE v

\* target[index] = value: the value, its leading dimensions of size one
\* dropped, must broadcast to the shape of the indexed target.
SetitemOK(value, target) ==
    /\ value # BadShape
    /\ LET v == StripLeadingOnes(value, Len(target))
       IN  /\ Len(v) <= Len(target)
           /\ Broadcast(v, target) = target

\* array[det3] for an index array of m entries: <<m>> then the trailing dims.
TakeRows(s, m) == IF s = BadShape \/ Len(s) = 0 THEN BadShape ELSE <<m>> \o Tail(s)

-----------------------------------------------------------------------------
(* Formulas (temp_metallicity_calc.py), on shapes *)

EmptyDict == [k \in {} |-> <<>>]

\* dict[k] = v
Put(d, k, v) == [x \in (DOMAIN d) \cup {k} |-> IF x = k THEN v ELSE d[x]]

\* R_value = OIII4363 / (OIII5007 * (1 + 1/3.1)) * 10 ** (0.4 * EBV * (k_4363 - k_5007))
R_calculation(OIII4363, OIII5007, EBV) ==
    Broadcast(Broadcast(OIII4363, OIII5007), EBV)

\* T_e = a * (-np.log10(R) - b) ** (-1 * c)
temp_calculation(R) == R

NoDet3 == [none |-> TRUE, idx |-> <<>>]

Det3(idx) == [none |-> FALSE, idx |-> idx]

metallicity_calculation(T_e, TWO_BETA, THREE_BETA, det3) ==
    LET failed(e) == [exc |-> e, dict |-> EmptyDict]
    IN
    IF Len(T_e) = 0 \/ T_e = BadShape THEN failed("TypeError")
    ELSE
    LET n_sample == T_e[1]
        idx      == IF det3.none THEN [i \in 1 .. n_sample |-> i - 1] ELSE det3.idx
        m        == Len(idx)
        InRange(s) == Len(s) > 0 /\ \A i \in 1 .. m : idx[i] >= -s[1] /\ idx[i] < s[1]
        sel      == <<m>>
        two      == Broadcast(TakeRows(TWO_BETA, m), sel)
        three    == Broadcast(TakeRows(THREE_BETA, m), sel)
        out      == <<n_sample>>
        key_dict == remove_from_list(temp_metal_names0, {"T_e"})
    IN
    IF ~InRange(<<n_sample>>) THEN failed("IndexError")
    \* t_3[det3] = T_e[det3] * 1e-4
    ELSE IF ~SetitemOK(TakeRows(T_e, m), sel) THEN failed("ValueError")
    ELSE IF ~InRange(TWO_BETA) THEN failed("IndexError")
    \* O_s_ion_log[det3] = np.log10(TWO_BETA[det3]) + ... t_2[det3] ...
    ELSE IF ~SetitemOK(two, sel) THEN failed("ValueError")
    ELSE IF ~InRange(THREE_BETA) THEN failed("IndexError")
    \* O_d_ion_log[det3] = np.log10(THREE_BETA[det3]) + ... t_3[det3] ...
    ELSE IF ~SetitemOK(three, sel) THEN failed("ValueError")
    ELSE [exc |-> "none", dict |-> [k \in {key_dict[i] : i \in 1 .. Len(key_dict)} |-> out]]

-----------------------------------------------------------------------------
(* Formulas (temp_metallicity_calc.py), element by element.  An element is *)
(* one of: "nan", "ninf" (-inf), "pinf" (+inf), "zero", "one", "two",      *)
(* "log2p12" (log10(2) + 12), "pos" (some other positive finite number),   *)
(* "fin" (a finite number whose sign the inputs' classes do not fix).      *)
(* numpy computes all of these without raising.                            *)

\* An excitation ratio R by where it lies against 10 ** (-b):
\* "below" is 0 < R < 10 ** (-b), "edge" is R = 10 ** (-b), "above" is
\* 10 ** (-b) < R < inf.
RClasses == {"nan", "neg", "zero", "below", "edge", "above", "pinf"}

\* -np.log10(R) - b
TempBase(R) ==
    CASE R \in {"nan", "neg"} -> "nan"
      [] R = "zero"  -> "pinf"
      [] R = "below" -> "pos"
      [] R = "edge"  -> "zero"
      [] R = "above" -> "neg"
      [] R = "pinf"  -> "ninf"

\* a * base ** (-1 * c), with 0 < c < 1: a negative finite base gives nan,
\* a zero base gives inf, an infinite base (of either sign) gives 0.
temp_element(R) ==
    LET base == TempBase(R)
    IN  CASE base = "nan"  -> "nan"
          [] base = "neg"  -> "nan"
          [] base = "zero" -> "pinf"
          [] base = "pos"  -> "pos"
          [] base \in {"pinf", "ninf"} -> "zero"

\* np.log10(v) for v that is nan, zero, positive or +inf
Log10(v) ==
    CASE v = "nan"  -> "nan"
      [] v = "zero" -> "ninf"
      [] v = "one"  -> "zero"
      [] v \in {"two", "pos", "log2p12"} -> "fin"
      [] v = "pinf" -> "pinf"

\* 10 ** v
Pow10(v) ==
    CASE v = "nan"  -> "nan"
      [] v = "ninf" -> "zero"
      [] v = "zero" -> "one"
      [] v = "pinf" -> "pinf"
      [] v \in {"one", "two", "log2p12", "pos", "fin"} -> "pos"

\* c / v for a constant c > 0 and v that is nan, zero, positive or +inf
Recip(v) ==
    CASE v = "nan"  -> "nan"
      [] v = "zero" -> "pinf"
      [] v \in {"one", "two", "pos"} -> "pos"
      [] v = "pinf" -> "zero"

\* -c * v for a constant c > 0
NegScale(v) ==
    CASE v = "nan"  -> "nan"
      [] v = "zero" -> "zero"
      [] v = "pinf" -> "ninf"
      [] v = "ninf" -> "pinf"
      [] v \in {"one", "two", "pos", "fin", "log2p12"} -> "fin"

\* The sum of the terms of `terms` and a finite non-zero constant.
SumOf(terms) ==
    IF "nan" \in terms \/ {"pinf", "ninf"} \subseteq terms THEN "nan"
    ELSE IF "pinf" \in terms THEN "pinf"
    ELSE IF "ninf" \in terms THEN "ninf"
    ELSE "fin"

\* x + y for x, y that are nan, zero, positive or +inf
AddNonneg(x, y) ==
    IF "nan" \in {x, y} THEN "nan"
    ELSE IF "pinf" \in {x, y} THEN "pinf"
    ELSE IF x = "zero" THEN y
    ELSE IF y = "zero" THEN x
    ELSE IF x = "one" /\ y = "one" THEN "two"
    ELSE "pos"

\* np.log10(v) + 12
Log10Plus12(v) ==
    CASE v = "nan"  -> "nan"
      [] v = "zero" -> "ninf"
      [] v = "two"  -> "log2p12"
      [] v \in {"one", "pos"} -> "fin"
      [] v = "pinf" -> "pinf"

\* The classes a temperature or a flux ratio is drawn from.
InputClasses == {"nan", "zero", "pos", "pinf"}

\* One element of metallicity_calculation's five results (lines 63-87): the
\* work arrays are np.zeros, and only the elements of det3 are assigned.
metal_element(in_det3, T_e, TWO_BETA, THREE_BETA) ==
    LET t_3 == IF in_det3 THEN T_e ELSE "zero"
        \* 0.7 * t_3 + 0.17
        t_2 == IF ~in_det3 THEN "zero"
               ELSE IF t_3 \in {"nan", "pinf"} THEN t_3 ELSE "pos"
        \* 1e-4 * 1e3 * t_2 ** (-0.5)
        x2  == IF ~in_det3 THEN "zero"
               ELSE IF t_2 = "nan" THEN "nan"
               ELSE IF t_2 = "pinf" THEN "zero" ELSE "pos"
        \* np.log10(1 + 1.35 * x2)
        lx2 == IF x2 = "nan" THEN "nan" ELSE IF x2 = "zero" THEN "zero" ELSE "pos"
        O_s_ion_log == IF ~in_det3 THEN "zero"
                       ELSE SumOf({Log10(TWO_BETA), Recip(t_2), NegScale(Log10(t_2)),
                                   NegScale(t_2), lx2})
        O_d_ion_log == IF ~in_det3 THEN "zero"
                       ELSE SumOf({Log10(THREE_BETA), Recip(t_3), NegScale(Log10(t_3)),
                                   NegScale(t_3)})
        O_s_ion   == Pow10(O_s_ion_log)
        O_d_ion   == Pow10(O_d_ion_log)
        com_O     == AddNonneg(O_s_ion, O_d_ion)
        com_O_log == Log10Plus12(com_O)
    IN  <<com_O_log, O_s_ion_log, O_d_ion_log, O_s_ion, O_d_ion>>

\* metallicity_calculation on three vectors of elements: the exception it
\* raises, or the mapping from each of the five names to its vector.
metallicity_values(T_e, TWO_BETA, THREE_BETA, det3) ==
    LET n    == Len(T_e)
        res  == metallicity_calculation(<<n>>, <<Len(TWO_BETA)>>, <<Len(THREE_BETA)>>, det3)
        idx  == IF det3.none THEN [i \in 1 .. n |-> i - 1] ELSE det3.idx
        \* a negative index counts from the end
        hit(i) == \E p \in 1 .. Len(idx) : idx[p] = i - 1 \/ idx[p] = i - 1 - n
        key_dict == remove_from_list(temp_metal_names0, {"T_e"})
    IN  IF res.exc # "none" THEN [exc |-> res.exc, dict |-> EmptyDict]
        ELSE [exc |-> "none",
              dict |-> [k \in {key_dict[q] : q \in 1 .. Len(key_dict)} |->
                          [i \in 1 .. n |->
                              metal_element(hit(i), T_e[i], TWO_BETA[i], THREE_BETA[i])[
                                  CHOOSE q \in 1 .. Len(key_dict) : key_dict[q] = k]]]]

-----------------------------------------------------------------------------
(* Flux-ratio builder (ratios.py) *)

flux_ratios(flux_dict, binned_data, get_R, d0) ==
    LET bin_ratios == IF ~binned_data
                      THEN [i \in 1 .. Len(bin_ratios0) |-> StripComposite(bin_ratios0[i])]
                      ELSE bin_ratios0
        \* dust0[0] += '_composite' ; dust0[1] += '_composite'
        d1 == IF ~binned_data THEN d0
              ELSE [d0 EXCEPT ![1] = AddComposite(@), ![2] = AddComposite(@)]
        two_beta_key   == bin_ratios[3]
        three_beta_key == bin_ratios[4]
        logR23_key     == bin_ratios[1]
        logO32_key     == bin_ratios[2]
        R_key          == bin_ratios[5]
        has(l)         == l \in DOMAIN flux_dict
        failed(e)      == [exc |-> e, dict |-> EmptyDict, dust0 |-> d1]
    IN
    IF ~(has(line_name_short.OII) /\ has(line_name_short.OIII) /\ has(line_name_short.HB))
    THEN failed("KeyError")
    ELSE
    LET OII        == flux_dict[line_name_short.OII]
        OIII       == flux_dict[line_name_short.OIII]
        Hb         == flux_dict[line_name_short.HB]
        two_beta   == Broadcast(OII, Hb)
        three_beta == Broadcast(OIII, Hb)
        logR23     == Broadcast(two_beta, three_beta)
        logO32     == Broadcast(OIII, OII)
        dict4      == Put(Put(Put(Put(EmptyDict, two_beta_key, two_beta),
                                  three_beta_key, three_beta),
                              logR23_key, logR23),
                          logO32_key, logO32)
        HgHb       == IF has(line_name_short.HG)
                      THEN Broadcast(flux_dict[line_name_short.HG], Hb) ELSE <<>>
        HdHb       == IF has(line_name_short.HD)
                      THEN Broadcast(flux_dict[line_name_short.HD], Hb) ELSE <<>>
        dict5      == IF has(line_name_short.HG) THEN Put(dict4, d1[1], HgHb) ELSE dict4
        dict6      == IF has(line_name_short.HD) THEN Put(dict5, d1[2], HdHb) ELSE dict5
    IN
    IF BadShape \in {two_beta, three_beta, logR23, logO32, HgHb, HdHb}
    THEN failed("ValueError")
    ELSE IF ~get_R THEN [exc |-> "none", dict |-> dict6, dust0 |-> d1]
    ELSE IF ~has(line_name_short.O4363) THEN failed("KeyError")
    ELSE IF ~Binds(Sig_R_calculation, Call_R_in_flux_ratios) THEN failed("TypeError")
    ELSE LET R == R_calculation(flux_dict[line_name_short.O4363], OIII, <<>>)
         IN  IF R = BadShape THEN failed("ValueError")
             ELSE [exc |-> "none", dict |-> Put(dict6, R_key, R), dust0 |-> d1]

-----------------------------------------------------------------------------
(* Sampler and reducer (chun_codes) *)

\* The deviate of draw j under seed seed_i, in units of sigma.
Deviate(seed_i, j) == ((seed_i + j) % 3) - 1

\* An (n, n_iter) ensemble: row i holds n_iter draws centred at x[i] with
\* spread dx[i]; the same seed gives the same ensemble.
random_pdf(x, dx, seed_i, n_iter) ==
    [i \in 1 .. Len(x) |->
        [j \in 1 .. n_iter |-> x[i] + dx[i] * Deviate(seed_i, j - 1)]]

SeqMax(s) == CHOOSE v \in {s[j] : j \in 1 .. Len(s)} :
                 \A j \in 1 .. Len(s) : s[j] <= v

Count(s, v) == Cardinality({j \in 1 .. Len(s) : s[j] = v})

\* The most frequent draw; among equally frequent ones the largest.
Mode(s) == CHOOSE v \in {s[j] : j \in 1 .. Len(s)} :
               \A j \in 1 .. Len(s) :
                   \/ Count(s, s[j]) < Count(s, v)
                   \/ Count(s, s[j]) = Count(s, v) /\ s[j] <= v

Abs(v) == IF v < 0 THEN -v ELSE v

\* (err, peak) per row: the peak of the draws and their largest deviation
\* from the nominal value x0.
compute_onesig_pdf(pdf, x0) ==
    [err  |-> [i \in 1 .. Len(pdf) |->
                  SeqMax([j \in 1 .. Len(pdf[i]) |-> Abs(pdf[i][j] - x0[i])])],
     peak |-> [i \in 1 .. Len(pdf) |-> Mode(pdf[i])]]

\* ndarray.shape of an ensemble
ShapeOf(pdf) == <<Len(pdf), NDraws>>

-----------------------------------------------------------------------------
(* The directory and the tables *)

Absent == [origin |-> "none", keys |-> {}]

Exists(dir, path) == dir[path].origin # "none"

FluxCols ==
    {Name(bin_names0[1])}
    \cup {Suffixed(l, "_Flux_Gaussian") : l \in LineSet}
    \cup {Suffixed(l, "_RMS") : l \in LineSet}
    \cup {Suffixed(l, "_Flux_Observed") : l \in LineSet}

PropCols ==
    {Name(bin_names0[1])}
    \cup {Name(temp_metal_names0[i]) : i \in 1 .. Len(temp_metal_names0)}

ValidCols == {Name(bin_names0[i]) : i \in 1 .. Len(bin_names0)}

\* What a file holds when it was not written by a run of the model.
ColsOf(path) ==
    CASE path \in {"bin_fit", "bin_fit_rev"} -> FluxCols
      [] path \in {"bin_valid", "bin_valid_rev"} -> ValidCols
      [] path \in {"bin_derived_prop", "bin_derived_prop_rev",
                   "bin_derived_prop_rev_dust"} -> PropCols
      [] OTHER -> {Name("archive")}

\* Detection flags are kept in tenths: 0, 0.5 and 1 are 0, 5 and 10.
DetectionFlags == {0, 5, 10}

Reliable == 10

\* The nominal <line>_Flux_Gaussian value of row r, line aa (0-based).
Flux0(r, a) == 10 * (r + 1) + a

NoTable == [id |-> <<>>, flux |-> <<>>, rms |-> <<>>]

\* asc.read(flux_file)
FluxTableOnDisk ==
    [id   |-> [r \in Rows |-> r],
     flux |-> [r \in Rows |-> [a \in 1 .. NLines |-> Flux0(r, a - 1)]],
     rms  |-> [r \in Rows |-> [a \in 1 .. NLines |-> rms[r]]]]

\* asc.read(prop_file): every cell holds the value the file has for it.
PropTableOnDisk ==
    [r \in Rows |->
        [n \in {temp_metal_names0[i] : i \in 1 .. Len(temp_metal_names0)} |-> "loaded"]]

RECURSIVE SortedSeq(_)
SortedSeq(S) ==
    IF S = {} THEN <<>>
    ELSE LET m == CHOOSE x \in S : \A y \in S : x <= y
         IN  <<m>> \o SortedSeq(S \ {m})

Range(q) == {q[i] : i \in 1 .. Len(q)}

\* Variant: marginal detections (0.5) taken along with the reliable ones.
WhereReliable_Marginal(det) == SortedSeq({r \in DOMAIN det : det[r] >= 5})

\* np.where((detection == 1))[0]
WhereReliable(det) == SortedSeq({r \in DOMAIN det : det[r] = Reliable})

\* table[idx]: the rows of idx, in the order of idx
TakeIndex(tab, idx) ==
    [id   |-> [p \in 1 .. Len(idx) |-> tab.id[idx[p]]],
     flux |-> [p \in 1 .. Len(idx) |-> tab.flux[idx[p]]],
     rms  |-> [p \in 1 .. Len(idx) |-> tab.rms[idx[p]]]]

\* Variant: column[:len(values)] = values, the peaks written by position.
SetAtIndex_Positional(column, idx, values) ==
    [r \in DOMAIN column |-> IF r < Len(values) THEN values[r + 1] ELSE column[r]]

\* column[idx] = values
SetAtIndex(column, idx, values) ==
    [r \in DOMAIN column |->
        IF \E p \in 1 .. Len(idx) : idx[p] = r
        THEN values[CHOOSE p \in 1 .. Len(idx) : idx[p] = r]
        ELSE column[r]]

NoError == [type |-> "none", path |-> "none"]

Msg(m, path) == [msg |-> m, path |-> path]

\* print("Overwriting ...") if exists(path) else print("Writing ...")
WriteNotice(dir, path) ==
    IF Exists(dir, path) THEN Msg("Overwriting", path) ELSE Msg("Writing", path)

Idle == {"idle", "done", "aborted"}

-----------------------------------------------------------------------------
(* Initial states *)

NoFn == [f |-> "none", get_R |-> FALSE, binned_data |-> FALSE, lines |-> {},
         shape |-> <<>>, det3 |-> NoDet3, dust0 |-> dust0_init,
         exc |-> "none", keys |-> {}, shapes |-> {}]

NoArgs == [raw |-> FALSE, binned_data |-> FALSE, apply_dust |-> FALSE,
           revised |-> FALSE, use_revised |-> FALSE]

\* The directory before the first run: at most one input table is absent;
\* the outputs of an earlier session are all there (prior) or all absent.
InitialDir(absent, prior) ==
    [p \in Paths |->
        IF p \in absent THEN Absent
        ELSE IF p \in InputPaths \/ prior
             THEN [origin |-> IF p \in InputPaths THEN "input" ELSE "prior",
                   keys |-> ColsOf(p)]
             ELSE Absent]

RunLocalInit ==
    /\ aa = 0
    /\ flux_tab0 = NoTable
    /\ prop_tab0 = <<>>
    /\ detect_idx = <<>>
    /\ flux_tab = NoTable
    /\ flux_pdf_dict = EmptyDict
    /\ flux_peak_dict = EmptyDict
    /\ flux_error_dict = EmptyDict
    /\ sampled = {}
    /\ log = {}
    /\ written = {}
    /\ stages = <<>>
    /\ error = NoError

Init ==
    /\ detection \in [Rows -> DetectionFlags]
    /\ \E s \in {0, 1} : rms = [r \in Rows |-> s]
    /\ \E absent \in {A \in SUBSET InputPaths : Cardinality(A) <= 1}, prior \in BOOLEAN :
          fs = InitialDir(absent, prior)
    /\ disk_flux_rev = <<>>
    /\ dust0 = dust0_init
    /\ op = "none"
    /\ args = NoArgs
    /\ pc = "idle"
    /\ RunLocalInit
    /\ fs0 = fs
    /\ fn = NoFn

-----------------------------------------------------------------------------
(* fluxes_derived_prop (error_prop.py) *)

env == <<detection, rms>>

Abort(type, path) ==
    /\ pc' = "aborted"
    /\ error' = [type |-> type, path |-> path]

\* The call: the run-local state is fresh, the paths are chosen (lines 50-60).
fluxes_derived_prop(raw, binned_data, apply_dust, revised) ==
    /\ pc \in Idle
    /\ op' = "fluxes_derived_prop"
    /\ args' = [raw |-> raw, binned_data |-> binned_data, apply_dust |-> apply_dust,
                revised |-> revised, use_revised |-> FALSE]
    /\ pc' = "read_flux"
    /\ aa' = 0
    /\ flux_tab0' = NoTable
    /\ prop_tab0' = <<>>
    /\ detect_idx' = <<>>
    /\ flux_tab' = NoTable
    /\ flux_pdf_dict' = EmptyDict
    /\ flux_peak_dict' = EmptyDict
    /\ flux_error_dict' = EmptyDict
    /\ sampled' = {}
    /\ log' = IF binned_data /\ ~raw
              THEN {Msg(IF revised THEN "Using REVISED validation table"
                                   ELSE "Using validation table", "none")}
              ELSE {}
    /\ written' = {}
    /\ stages' = <<>>
    /\ error' = NoError
    /\ fs0' = fs
    /\ UNCHANGED <<env, fs, disk_flux_rev, dust0, fn>>

\* flux_tab0 = asc.read(flux_file); flux_file is bound only for binned data.
ReadFlux ==
    /\ pc = "read_flux"
    /\ IF ~args.binned_data
       THEN /\ Abort("UnboundLocalError", "none")
            /\ UNCHANGED flux_tab0
       ELSE IF ~Exists(fs, "bin_fit")
       THEN /\ Abort("FileNotFoundError", "bin_fit")
            /\ UNCHANGED flux_tab0
       ELSE /\ flux_tab0' = FluxTableOnDisk
            /\ pc' = IF args.raw THEN "raw" ELSE "read_prop"
            /\ UNCHANGED error
    /\ UNCHANGED <<env, fs, disk_flux_rev, dust0, op, args, aa, prop_tab0,
                   detect_idx, flux_tab, flux_pdf_dict, flux_peak_dict,
                   flux_error_dict, sampled, log, written, stages, fs0, fn>>

\* prop_tab0 = asc.read(prop_file)
ReadProp ==
    /\ pc = "read_prop"
    /\ IF ~Exists(fs, "bin_derived_prop")
       THEN /\ Abort("FileNotFoundError", "bin_derived_prop")
            /\ UNCHANGED prop_tab0
       ELSE /\ prop_tab0' = PropTableOnDisk
            /\ pc' = "read_verify"
            /\ UNCHANGED error
    /\ UNCHANGED <<env, fs, disk_flux_rev, dust0, op, args, aa, flux_tab0,
                   detect_idx, flux_tab, flux_pdf_dict, flux_peak_dict,
                   flux_error_dict, sampled, log, written, stages, fs0, fn>>

\* Variant: the two validation tables swapped.
VerifyFile_Swapped == IF args.revised THEN "bin_valid" ELSE "bin_valid_rev"

VerifyFile == IF args.revised THEN "bin_valid_rev" ELSE "bin_valid"

\* verify_tab = asc.read(verify_file); detect_idx; flux_tab = flux_tab0[detect_idx]
ReadVerify ==
    /\ pc = "read_verify"
    /\ IF ~Exists(fs, VerifyFile)
       THEN /\ Abort("FileNotFoundError", VerifyFile)
            /\ UNCHANGED <<detect_idx, flux_tab, stages>>
       ELSE /\ detect_idx' = WhereReliable(detection)
            /\ flux_tab' = TakeIndex(flux_tab0, detect_idx')
            /\ stages' = Append(stages, "load")
            /\ pc' = "randomize"
            /\ UNCHANGED error
    /\ UNCHANGED <<env, fs, disk_flux_rev, dust0, op, args, aa, flux_tab0,
                   prop_tab0, flux_pdf_dict, flux_peak_dict, flux_error_dict,
                   sampled, log, written, fs0, fn>>

\* One iteration of the randomization loop, for line aa.
Randomize ==
    /\ pc = "randomize"
    /\ aa < NLines
    /\ LET line   == line_name[aa + 1]
           x      == [p \in 1 .. Len(detect_idx) |-> flux_tab.flux[p][aa + 1]]
           dx     == [p \in 1 .. Len(detect_idx) |-> flux_tab.rms[p][aa + 1]]
           pdf    == random_pdf(x, dx, aa, NDraws)
           red    == compute_onesig_pdf(pdf, x)
           column == [r \in Rows |-> flux_tab0.flux[r][aa + 1]]
           newcol == SetAtIndex(column, detect_idx, red.peak)
       IN  /\ flux_pdf_dict' = Put(flux_pdf_dict, line, pdf)
           /\ flux_peak_dict' = Put(flux_peak_dict, Suffixed(line, "_peak"), red.peak)
           /\ flux_error_dict' = Put(flux_error_dict, Suffixed(line, "_error"), red.err)
           /\ flux_tab0' = [flux_tab0 EXCEPT !.flux =
                               [r \in Rows |-> [flux_tab0.flux[r] EXCEPT ![aa + 1] = newcol[r]]]]
           /\ sampled' = sampled \cup Range(flux_tab.id)
    /\ aa' = aa + 1
    /\ IF aa' = NLines
       THEN /\ pc' = "write_flux"
            /\ stages' = Append(stages, "flux_randomization")
       ELSE UNCHANGED <<pc, stages>>
    /\ UNCHANGED <<env, fs, disk_flux_rev, dust0, op, args, prop_tab0, detect_idx,
                   flux_tab, log, written, error, fs0, fn>>

\* Variant: the write indented into the randomization loop.
WriteFluxRev_InLoop ==
    /\ pc \in {"randomize", "write_flux"}
    /\ log' = log \cup {WriteNotice(fs, "bin_fit_rev")}
    /\ fs' = [fs EXCEPT !["bin_fit_rev"] =
                 [origin |-> "fluxes_derived_prop", keys |-> FluxCols]]
    /\ disk_flux_rev' = flux_tab0.flux
    /\ written' = written \cup {"bin_fit_rev"}
    /\ pc' = IF pc = "write_flux" THEN "write_npz" ELSE pc
    /\ UNCHANGED <<env, dust0, op, args, aa, flux_tab0, prop_tab0, detect_idx,
                   flux_tab, flux_pdf_dict, flux_peak_dict, flux_error_dict,
                   sampled, stages, error, fs0, fn>>

\* asc.write(flux_tab0, new_flux_file, overwrite=True)
WriteFluxRev ==
    /\ pc = "write_flux"
    /\ log' = log \cup {WriteNotice(fs, "bin_fit_rev")}
    /\ fs' = [fs EXCEPT !["bin_fit_rev"] =
                 [origin |-> "fluxes_derived_prop", keys |-> FluxCols]]
    /\ disk_flux_rev' = flux_tab0.flux
    /\ written' = written \cup {"bin_fit_rev"}
    /\ pc' = "write_npz"
    /\ UNCHANGED <<env, dust0, op, args, aa, flux_tab0, prop_tab0, detect_idx,
                   flux_tab, flux_pdf_dict, flux_peak_dict, flux_error_dict,
                   sampled, stages, error, fs0, fn>>

\* write_npz(path, npz_files, dict_list): the directory and the log after it.
write_npz(dir, lg, npz_files, dict_list) ==
    [fs  |-> [p \in Paths |->
                 IF \E i \in 1 .. Len(npz_files) : npz_files[i] = p
                 THEN LET i == CHOOSE i \in 1 .. Len(npz_files) : npz_files[i] = p
                      IN  [origin |-> "write_npz", keys |-> dict_list[i]]
                 ELSE dir[p]],
     log |-> lg \cup {WriteNotice(dir, npz_files[i]) : i \in 1 .. Len(npz_files)}]

StrKeys(d) == {Name(k) : k \in DOMAIN d}

\* Save flux npz files
WriteNpzFlux ==
    /\ pc = "write_npz"
    /\ LET npz_files == <<"flux_pdf", "flux_errors", "flux_peak">>
           dict_list == <<StrKeys(flux_pdf_dict), DOMAIN flux_error_dict,
                          DOMAIN flux_peak_dict>>
           w == write_npz(fs, log, npz_files, dict_list)
       IN  /\ fs' = w.fs
           /\ log' = w.log
           /\ written' = written \cup Range(npz_files)
    /\ stages' = Append(stages, "persist_flux")
    /\ pc' = "ratios"
    /\ UNCHANGED <<env, disk_flux_rev, dust0, op, args, aa, flux_tab0, prop_tab0,
                   detect_idx, flux_tab, flux_pdf_dict, flux_peak_dict,
                   flux_error_dict, sampled, error, fs0, fn>>


\* What lines 96-104 (raw) or 158-186 (randomized) end with: the first
\* exception raised by flux_ratios, the dust step, temp_calculation or
\* metallicity_calculation, or "none".
FormulaOutcome(fr, dust, call_temp, call_metal) ==
    IF fr.exc # "none" THEN fr.exc
    ELSE IF dust /\ Name("HgHb") \notin DOMAIN fr.dict THEN "KeyError"
    ELSE IF dust /\ ~Binds(Sig_compute_EBV, Call_EBV_randomized) THEN "TypeError"
    ELSE IF Name("R") \notin DOMAIN fr.dict THEN "KeyError"
    ELSE IF ~Binds(Sig_temp_calculation, call_temp) THEN "TypeError"
    ELSE IF ~({Name("two_beta"), Name("three_beta")} \subseteq DOMAIN fr.dict)
    THEN "KeyError"
    ELSE IF ~Binds(Sig_metallicity_calculation, call_metal) THEN "TypeError"
    ELSE metallicity_calculation(temp_calculation(fr.dict[Name("R")]),
                                 fr.dict[Name("two_beta")],
                                 fr.dict[Name("three_beta")], NoDet3).exc

MetalKeys == {Name(k) : k \in Range(remove_from_list(temp_metal_names0, {"T_e"}))}

\* The raw branch (lines 89-118): formulas once on the nominal fluxes of all
\* rows, then the derived-property table.
RawSection ==
    /\ pc = "raw"
    /\ LET flux_dict == [l \in LineSet |-> <<Cardinality(DOMAIN flux_tab0.flux)>>]
           fr        == flux_ratios(flux_dict, FALSE, TRUE, dust0)
           exc       == FormulaOutcome(fr, FALSE, Call_temp_raw, Call_metal_raw)
           tbl_keys  == {Name(bin_names0[1])} \cup DOMAIN fr.dict
                        \cup {Name(temp_metal_names0[1])} \cup MetalKeys
           outfile   == "bin_derived_prop"
       IN  /\ dust0' = fr.dust0
           /\ IF exc # "none"
              THEN /\ Abort(exc, "none")
                   /\ UNCHANGED <<fs, log, written, stages>>
              ELSE /\ log' = log \cup {WriteNotice(fs, outfile)}
                   /\ fs' = [fs EXCEPT ![outfile] =
                                [origin |-> "fluxes_derived_prop", keys |-> tbl_keys]]
                   /\ written' = written \cup {outfile}
                   /\ stages' = Append(stages, "raw")
                   /\ pc' = "done"
                   /\ UNCHANGED error
    /\ UNCHANGED <<env, disk_flux_rev, op, args, aa, flux_tab0, prop_tab0,
                   detect_idx, flux_tab, flux_pdf_dict, flux_peak_dict,
                   flux_error_dict, sampled, fs0, fn>>

PropFileRev ==
    IF ~args.apply_dust THEN "bin_derived_prop_rev" ELSE "bin_derived_prop_rev_dust"

\* Lines 158-221: ratio propagation, the dust step, derived-property
\* propagation, and the revised derived-property table and archives.
DerivedSection ==
    /\ pc = "ratios"
    /\ LET flux_dict == [l \in DOMAIN flux_pdf_dict |-> ShapeOf(flux_pdf_dict[l])]
           fr        == flux_ratios(flux_dict, FALSE, TRUE, dust0)
           exc       == FormulaOutcome(fr, args.apply_dust, Call_temp_randomized,
                                       Call_metal_randomized)
           names     == Range(temp_metal_names0)
           peak_prop == [p \in 1 .. Len(detect_idx) |-> "peak"]
           newcol(n) == SetAtIndex([r \in Rows |-> prop_tab0[r][n]], detect_idx, peak_prop)
           dir1      == [fs EXCEPT ![PropFileRev] =
                            [origin |-> "fluxes_derived_prop", keys |-> PropCols]]
           npz_files == <<"der_prop_pdf", "der_prop_errors", "der_prop_peak">>
           dict_list == <<{Name(n) : n \in names},
                          {Suffixed(n, "_error") : n \in names},
                          {Suffixed(n, "_peak") : n \in names}>>
           w         == write_npz(dir1, log \cup {WriteNotice(fs, PropFileRev)},
                                  npz_files, dict_list)
       IN  /\ dust0' = fr.dust0
           /\ IF exc # "none"
              THEN /\ Abort(exc, "none")
                   /\ UNCHANGED <<fs, log, written, stages, prop_tab0>>
              ELSE /\ prop_tab0' = [r \in Rows |-> [n \in names |-> newcol(n)[r]]]
                   /\ fs' = w.fs
                   /\ log' = w.log
                   /\ written' = written \cup {PropFileRev} \cup Range(npz_files)
                   /\ stages' = stages \o <<"ratio_propagation">>
                                \o (IF args.apply_dust THEN <<"dust">> ELSE <<>>)
                                \o <<"derived_propagation", "persist_prop">>
                   /\ pc' = "done"
                   /\ UNCHANGED error
    /\ UNCHANGED <<env, disk_flux_rev, op, args, aa, flux_tab0, detect_idx,
                   flux_tab, flux_pdf_dict, flux_peak_dict, flux_error_dict,
                   sampled, fs0, fn>>

-----------------------------------------------------------------------------
(* compute_EBV (attenuation.py) *)

compute_EBV(use_revised) ==
    /\ pc \in Idle
    /\ op' = "compute_EBV"
    /\ args' = [NoArgs EXCEPT !.use_revised = use_revised]
    /\ pc' = "ebv_read"
    /\ aa' = 0
    /\ flux_tab0' = NoTable
    /\ prop_tab0' = <<>>
    /\ detect_idx' = <<>>
    /\ flux_tab' = NoTable
    /\ flux_pdf_dict' = EmptyDict
    /\ flux_peak_dict' = EmptyDict
    /\ flux_error_dict' = EmptyDict
    /\ sampled' = {}
    /\ log' = {}
    /\ written' = {}
    /\ stages' = <<>>
    /\ error' = NoError
    /\ fs0' = fs
    /\ UNCHANGED <<env, fs, disk_flux_rev, dust0, fn>>

CombineFile == IF args.use_revised THEN "bin_fit_rev" ELSE "bin_fit"

OutAscii == IF args.use_revised THEN "bin_derived_prop_rev" ELSE "bin_derived_prop"

\* Lines 31-49: read the fit table, the Balmer decrements and E(B-V).
EBVReadFit ==
    /\ pc = "ebv_read"
    /\ log' = log \cup {Msg("Reading", CombineFile)}
    /\ IF ~Exists(fs, CombineFile)
       THEN Abort("FileNotFoundError", CombineFile)
       ELSE IF ~({Name(bin_names0[1])}
                 \cup {Suffixed(line_name_short[k], "_Flux_Observed") : k \in {"HB", "HG", "HD"}}
                 \subseteq fs[CombineFile].keys)
       THEN Abort("KeyError", "none")
       ELSE /\ pc' = "ebv_out"
            /\ UNCHANGED error
    /\ UNCHANGED <<env, fs, disk_flux_rev, dust0, op, args, aa, flux_tab0,
                   prop_tab0, detect_idx, flux_tab, flux_pdf_dict, flux_peak_dict,
                   flux_error_dict, sampled, written, stages, fs0, fn>>

\* col1 = Column(HgHb, name=dust0[1])
col1 == dust0[2]

\* col2 = Column(HdHb, name=dust0[2])
col2 == dust0[3]

\* col3 = Column(EBV, name=dust0[0])
col3 == dust0[1]

\* flux_ratios_dict['HgHb'], the name the dust step of fluxes_derived_prop
\* looks the Balmer decrement up under
dust_lookup == Name("HgHb")

\* The columns compute_EBV adds: HgHb as dust0[1], HdHb as dust0[2], EBV as dust0[0].
EBVColumns == {dust0[2], dust0[3], dust0[1]}

\* asc.write(tab1, out_ascii) is called without overwrite on a file that
\* exists: depending on the astropy release it replaces the file with a
\* deprecation warning or raises OSError.
AstropyWriteExisting == {"replace", "raise"}

\* Lines 51-63: the derived-property table gets the three columns.
EBVWrite ==
    /\ pc = "ebv_out"
    /\ IF ~Exists(fs, OutAscii)
       THEN /\ log' = log \cup {Msg("File not found", OutAscii)}
            /\ Abort("FileNotFoundError", "none")
            /\ UNCHANGED <<fs, written>>
       ELSE LET tab1 == fs[OutAscii].keys
                notice == Msg("Adding dust attenuation information to", OutAscii)
            IN  IF EBVColumns \cap tab1 # {}
                THEN \* tab1.add_columns: duplicate column names
                     /\ log' = log \cup {notice}
                     /\ Abort("ValueError", "none")
                     /\ UNCHANGED <<fs, written>>
                ELSE \E outcome \in AstropyWriteExisting :
                        IF outcome = "raise"
                        THEN /\ log' = log \cup {notice}
                             /\ Abort("OSError", OutAscii)
                             /\ UNCHANGED <<fs, written>>
                        ELSE /\ log' = log \cup {notice, Msg("AstropyDeprecationWarning", OutAscii)}
                             /\ fs' = [fs EXCEPT ![OutAscii] =
                                          [origin |-> "compute_EBV",
                                           keys |-> tab1 \cup EBVColumns]]
                             /\ written' = written \cup {OutAscii}
                             /\ pc' = "done"
                             /\ UNCHANGED error
    /\ UNCHANGED <<env, disk_flux_rev, dust0, op, args, aa, flux_tab0, prop_tab0,
                   detect_idx, flux_tab, flux_pdf_dict, flux_peak_dict,
                   flux_error_dict, sampled, stages, fs0, fn>>

-----------------------------------------------------------------------------
(* The process: operations one after another on the same directory *)

Next ==
    \/ \E raw, binned_data, apply_dust, revised \in BOOLEAN :
          fluxes_derived_prop(raw, binned_data, apply_dust, revised)
    \/ ReadFlux
    \/ ReadProp
    \/ ReadVerify
    \/ Randomize
    \/ WriteFluxRev
    \/ WriteNpzFlux
    \/ RawSection
    \/ DerivedSection
    \/ \E use_revised \in BOOLEAN : compute_EBV(use_revised)
    \/ EBVReadFit
    \/ EBVWrite

Spec == Init /\ [][Next]_vars


-----------------------------------------------------------------------------
(* The formulas applied directly, to arrays of every shape within the bounds *)

Shapes == {<<n>> : n \in 1 .. NRows}
          \cup {<<n, k>> : n \in 1 .. NRows, k \in 1 .. NDraws}

pipeline_vars == <<detection, rms, fs, disk_flux_rev, op, args, pc, aa, flux_tab0,
                   prop_tab0, detect_idx, flux_tab, flux_pdf_dict, flux_peak_dict,
                   flux_error_dict, sampled, log, written, stages, error, fs0>>

InitFn ==
    /\ detection = [r \in Rows |-> Reliable]
    /\ rms = [r \in Rows |-> 0]
    /\ fs = InitialDir({}, FALSE)
    /\ disk_flux_rev = <<>>
    /\ dust0 = dust0_init
    /\ op = "none"
    /\ args = NoArgs
    /\ pc = "idle"
    /\ RunLocalInit
    /\ fs0 = fs
    /\ fn = NoFn

\* flux_ratios(flux_dict, binned_data, get_R) on a mapping that holds the
\* lines of `lines`, each an array of shape `shape`.
ApplyFluxRatios(lines, shape, binned_data, get_R) ==
    /\ fn.f = "none"
    /\ binned_data => \A i \in 1 .. 2 : dust0[i].ncomp < MaxComposite
    /\ LET res == flux_ratios([l \in lines |-> shape], binned_data, get_R, dust0)
       IN  /\ fn' = [f |-> "flux_ratios", get_R |-> get_R, binned_data |-> binned_data,
                     lines |-> lines, shape |-> shape, det3 |-> NoDet3,
                     dust0 |-> dust0, exc |-> res.exc, keys |-> DOMAIN res.dict,
                     shapes |-> {res.dict[k] : k \in DOMAIN res.dict}]
           /\ dust0' = res.dust0
    /\ UNCHANGED pipeline_vars

\* metallicity_calculation(T_e, TWO_BETA, THREE_BETA, det3) on three arrays
\* of shape `shape`.
ApplyMetallicity(shape, det3) ==
    /\ fn.f = "none"
    /\ LET res == metallicity_calculation(shape, shape, shape, det3)
       IN  fn' = [f |-> "metallicity_calculation", get_R |-> FALSE,
                  binned_data |-> FALSE, lines |-> {}, shape |-> shape,
                  det3 |-> det3, dust0 |-> dust0, exc |-> res.exc,
                  keys |-> {Name(k) : k \in DOMAIN res.dict},
                  shapes |-> {res.dict[k] : k \in DOMAIN res.dict}]
    /\ UNCHANGED <<pipeline_vars, dust0>>

\* temp_calculation(R_calculation(OIII4363, OIII5007, EBV)) with a scalar EBV.
ApplyTemp(shape) ==
    /\ fn.f = "none"
    /\ LET T_e == temp_calculation(R_calculation(shape, shape, <<>>))
       IN  fn' = [f |-> "temp_calculation", get_R |-> FALSE,
                  binned_data |-> FALSE, lines |-> {}, shape |-> shape,
                  det3 |-> NoDet3, dust0 |-> dust0, exc |-> "none",
                  keys |-> {Name(temp_metal_names0[1])}, shapes |-> {T_e}]
    /\ UNCHANGED <<pipeline_vars, dust0>>

\* metallicity_calculation(T_e, TWO_BETA, THREE_BETA, det3) on three vectors
\* of elements.
ApplyMetallicityValues(T_e, TWO_BETA, THREE_BETA, det3) ==
    /\ fn.f = "none"
    /\ LET res == metallicity_values(T_e, TWO_BETA, THREE_BETA, det3)
       IN  fn' = [f |-> "metallicity_values", T_e |-> T_e, TWO_BETA |-> TWO_BETA,
                  THREE_BETA |-> THREE_BETA, det3 |-> det3, exc |-> res.exc,
                  dict |-> res.dict]
    /\ UNCHANGED <<pipeline_vars, dust0>>

\* temp_calculation(R) on a vector of excitation ratios, and
\* metallicity_calculation on the temperatures it returns.
ApplyTempValues(R, TWO_BETA, THREE_BETA) ==
    /\ fn.f = "none"
    /\ LET T_e == [i \in 1 .. Len(R) |-> temp_element(R[i])]
           res == metallicity_values(T_e, TWO_BETA, THREE_BETA, NoDet3)
       IN  fn' = [f |-> "temp_values", R |-> R, T_e |-> T_e, TWO_BETA |-> TWO_BETA,
                  THREE_BETA |-> THREE_BETA, det3 |-> NoDet3, exc |-> res.exc,
                  dict |-> res.dict]
    /\ UNCHANGED <<pipeline_vars, dust0>>

\* The caller drops the result; the next application starts from dust0 as
\* the applications so far left it.
Discard ==
    /\ fn.f # "none"
    /\ fn' = NoFn
    /\ UNCHANGED <<pipeline_vars, dust0>>

\* The vectors of n elements drawn from `classes`.
Vectors(n, classes) == [1 .. n -> classes]

\* The vector of n elements that are all `class`.
Uniform(n, class) == [i \in 1 .. n |-> class]

Det3Choices(shape) ==
    {NoDet3} \cup {Det3(SortedSeq(S)) : S \in SUBSET (0 .. (shape[1] - 1))}

NextFn ==
    \/ \E lines \in SUBSET LineSet, shape \in Shapes, binned_data, get_R \in BOOLEAN :
          ApplyFluxRatios(lines, shape, binned_data, get_R)
    \/ \E shape \in Shapes : \E det3 \in Det3Choices(shape) :
          ApplyMetallicity(shape, det3)
    \/ \E shape \in Shapes : ApplyTemp(shape)
    \/ \E n \in 1 .. NRows :
          \E T_e \in Vectors(n, InputClasses), two, three \in InputClasses :
             \E det3 \in Det3Choices(<<n>>) :
                ApplyMetallicityValues(T_e, Uniform(n, two), Uniform(n, three), det3)
    \/ \E n \in 1 .. NRows :
          \E R \in Vectors(n, RClasses), two, three \in {"pos", "nan"} :
             ApplyTempValues(R, Uniform(n, two), Uniform(n, three))
    \/ Discard

SpecFn == InitFn /\ [][NextFn]_vars


-----------------------------------------------------------------------------
(* Properties *)

Randomized == op = "fluxes_derived_prop" /\ ~args.raw

LoadDone == Randomized /\ "load" \in Range(stages)

RunEnded == pc \in {"done", "aborted"}

FlagOne(r) == detection[r] = 10

\* C1: in a randomized run, every row outside the detected index subset
\* holds, in the flux table in memory, in the revised flux table on disk and
\* in the derived-property table, the value it was loaded with; the RMS and
\* bin_ID columns are unchanged in every row.
C1_FrameEffect ==
    LoadDone =>
        /\ \A r \in Rows \ Range(detect_idx) :
              /\ flux_tab0.flux[r] = FluxTableOnDisk.flux[r]
              /\ prop_tab0[r] = PropTableOnDisk[r]
              /\ "bin_fit_rev" \in written => disk_flux_rev[r] = FluxTableOnDisk.flux[r]
        /\ flux_tab0.rms = FluxTableOnDisk.rms
        /\ flux_tab0.id = FluxTableOnDisk.id

\* A run that wrote the revised flux table with a row outside the subset and
\* a detected row whose flux was replaced.
C1_Witness ==
    /\ LoadDone
    /\ RunEnded
    /\ "bin_fit_rev" \in written
    /\ Rows \ Range(detect_idx) # {}
    /\ \E r \in Range(detect_idx) : disk_flux_rev[r] # FluxTableOnDisk.flux[r]

\* C2: the detected index subset is exactly the set of rows whose Detection
\* flag is 1; no other row is sampled, reduced or overwritten, and every row
\* with flag 1 is sampled, reduced and overwritten with its peak for each
\* line the loop has done.
C2_DetectedSubset ==
    LoadDone =>
        /\ Range(detect_idx) = {r \in Rows : FlagOne(r)}
        /\ sampled \subseteq {r \in Rows : FlagOne(r)}
        /\ aa >= 1 => sampled = {r \in Rows : FlagOne(r)}
        /\ \A r \in Rows : ~FlagOne(r) => flux_tab0.flux[r] = FluxTableOnDisk.flux[r]
        /\ \A a \in 1 .. aa :
              /\ Len(flux_pdf_dict[line_name[a]]) = Cardinality({r \in Rows : FlagOne(r)})
              /\ \A p \in 1 .. Len(detect_idx) :
                    /\ FlagOne(detect_idx[p])
                    /\ flux_tab0.flux[detect_idx[p]][a]
                          = flux_peak_dict[Suffixed(line_name[a], "_peak")][p]

\* The loop is over, with a row flagged 0.5 left out and a row flagged 1 in.
C2_Witness ==
    /\ LoadDone
    /\ aa = NLines
    /\ \E r \in Rows : detection[r] = 5 /\ r \notin sampled
    /\ \E r \in Rows : FlagOne(r) /\ r \in sampled

DegenerateEnsembles ==
    \A l \in DOMAIN flux_pdf_dict : \A p \in 1 .. Len(detect_idx) :
        \A j \in 1 .. NDraws :
            flux_pdf_dict[l][p][j] = FluxTableOnDisk.flux[detect_idx[p]][
                CHOOSE a \in 1 .. NLines : line_name[a] = l]

\* C3 (as claimed): the randomized path makes the formula calls the raw path
\* makes, so a randomized run on ensembles whose every draw is the nominal
\* flux completes derived-property propagation as the raw path does.
C3_RawRandomizedAgree ==
    (Randomized /\ ~args.apply_dust /\ RunEnded
        /\ "persist_flux" \in Range(stages) /\ DegenerateEnsembles)
    => /\ Binds(Sig_temp_calculation, Call_temp_randomized)
            = Binds(Sig_temp_calculation, Call_temp_raw)
       /\ Binds(Sig_metallicity_calculation, Call_metal_randomized)
            = Binds(Sig_metallicity_calculation, Call_metal_raw)
       /\ pc = "done"
       /\ "derived_propagation" \in Range(stages)

\* C4 (as claimed): metallicity_calculation applied to (n, k) ensembles
\* returns five (n, k) ensembles.
C4_EnsembleShapes ==
    (fn.f = "metallicity_calculation" /\ Len(fn.shape) = 2 /\ fn.det3.none)
    => /\ fn.exc = "none"
       /\ Cardinality(fn.keys) = 5
       /\ fn.shapes = {fn.shape}

\* C5 (as claimed): a randomized run whose inputs are all present reaches the
\* persist stage and writes the dust variant of the derived-property table
\* when apply_dust is set, the plain revised one otherwise.
C5_DustVariants ==
    (Randomized /\ RunEnded /\ "persist_flux" \in Range(stages))
    => /\ pc = "done"
       /\ args.apply_dust => "bin_derived_prop_rev_dust" \in written
       /\ ~args.apply_dust => "bin_derived_prop_rev" \in written

\* C6 (as claimed): a raw run on a flux table that is there samples nothing,
\* reads neither the validation nor the derived-property table, and writes
\* exactly one output, the derived-property table.
C6_RawSingleOutput ==
    (op = "fluxes_derived_prop" /\ args.raw /\ args.binned_data
        /\ Exists(fs0, "bin_fit") /\ RunEnded)
    => /\ sampled = {}
       /\ detect_idx = <<>>
       /\ prop_tab0 = <<>>
       /\ written = {"bin_derived_prop"}

\* C7 (as claimed): neither revised table is written before derived-property
\* propagation has completed.
C7_NoWriteBeforeDerived ==
    (Randomized /\ written \cap {"bin_fit_rev", "bin_derived_prop_rev",
                                  "bin_derived_prop_rev_dust"} # {})
    => "derived_propagation" \in Range(stages)

StageOrder == <<"load", "flux_randomization", "persist_flux", "ratio_propagation",
                "dust", "derived_propagation", "persist_prop">>

StageRank(st) == CHOOSE i \in 1 .. Len(StageOrder) : StageOrder[i] = st

\* C7 (amended): the stages of a randomized run complete in the order load,
\* flux randomization, persist of the revised flux table and flux archives,
\* ratio propagation, optional dust step, derived-property propagation,
\* persist of the revised derived-property table, each at most once; the
\* revised flux table is written once flux randomization is complete and
\* before ratio propagation, the revised derived-property table only after
\* derived-property propagation.
C7_StageOrder ==
    Randomized =>
        /\ \A i \in 1 .. Len(stages) : stages[i] \in Range(StageOrder)
        /\ \A i, j \in 1 .. Len(stages) :
              i < j => StageRank(stages[i]) < StageRank(stages[j])
        /\ "bin_fit_rev" \in written =>
              /\ "flux_randomization" \in Range(stages)
              /\ aa = NLines
        /\ ("bin_fit_rev" \notin written \/ written \cap NpzPaths = {}) =>
              "ratio_propagation" \notin Range(stages)
        /\ written \cap {"bin_derived_prop_rev", "bin_derived_prop_rev_dust"} # {} =>
              "derived_propagation" \in Range(stages)

\* The revised flux table is on disk and the flux archives are written.
C7_Witness ==
    /\ Randomized
    /\ "bin_fit_rev" \in written
    /\ stages = <<"load", "flux_randomization", "persist_flux">>


\* C8 (as claimed): for a mapping that holds the OII, OIII5007 and Hbeta
\* lines, flux_ratios returns a mapping whose keys are the four ratios, the
\* Hgamma/Hbeta key iff Hgamma is there, the Hdelta/Hbeta key iff Hdelta is
\* there, and R iff get_R is set and the OIII_4363 line is there.
C8_KeySet ==
    (fn.f = "flux_ratios" /\ {"OII_3727", "OIII_5007", "HBETA"} \subseteq fn.lines)
    => /\ fn.exc = "none"
       /\ {k.base : k \in fn.keys}
            = {"two_beta", "three_beta", "logR23", "logO32"}
              \cup (IF "HGAMMA" \in fn.lines THEN {fn.dust0[1].base} ELSE {})
              \cup (IF "HDELTA" \in fn.lines THEN {fn.dust0[2].base} ELSE {})
              \cup (IF fn.get_R /\ "OIII_4363" \in fn.lines THEN {"R"} ELSE {})

\* C9 (as claimed): every write of an output whose path exists logs an
\* overwriting notice and the run goes on; an operation whose inputs and
\* outputs are all there is never stopped by an output that exists.
C9_OverwriteProceeds ==
    /\ \A p \in written : Exists(fs0, p) => Msg("Overwriting", p) \in log
    /\ (op = "compute_EBV" /\ Exists(fs0, CombineFile) /\ Exists(fs0, OutAscii))
          => pc # "aborted"

RequiredTables ==
    IF op = "fluxes_derived_prop" /\ ~args.raw /\ args.binned_data
    THEN {"bin_fit", "bin_derived_prop",
          IF args.revised THEN "bin_valid_rev" ELSE "bin_valid"}
    ELSE IF op = "compute_EBV"
    THEN {IF args.use_revised THEN "bin_fit_rev" ELSE "bin_fit",
          IF args.use_revised THEN "bin_derived_prop_rev" ELSE "bin_derived_prop"}
    ELSE {}

MissingTables == {p \in RequiredTables : ~Exists(fs0, p)}

-----------------------------------------------------------------------------
\* The five quantities, in the order of the returned mapping's names.
MetalNames == remove_from_list(temp_metal_names0, {"T_e"})

\* The 0-based indices that det3 selects in a vector of n elements.
Selected(det3, n) ==
    IF det3.none THEN 0 .. (n - 1)
    ELSE {j \in 0 .. (n - 1) : \E p \in 1 .. Len(det3.idx) :
                                   det3.idx[p] = j \/ det3.idx[p] = j - n}

MetalApplied == fn.f = "metallicity_values" /\ fn.exc = "none"

\* C11: at every index that is not in det3, each of the five quantities that
\* metallicity_calculation returns (12+log(O/H), log(O+/H), log(O++/H), O+/H,
\* O++/H) is the zero placeholder, whatever T_e, TWO_BETA and THREE_BETA hold
\* at that index.
C11_UndetectedZero ==
    MetalApplied =>
        \A i \in 1 .. Len(fn.T_e) :
            (i - 1) \notin Selected(fn.det3, Len(fn.T_e)) =>
                \A q \in 1 .. Len(MetalNames) : fn.dict[MetalNames[q]][i] = "zero"

-----------------------------------------------------------------------------
\* C12: after any sequence of flux_ratios calls, with any mix of binned_data
\* values, the process-wide vocabulary dust0 holds its initial value, and the
\* mapping a call returns has the key names that the same call returns when
\* no call came before it.
C12_VocabulariesFixed ==
    /\ dust0 = dust0_init
    /\ fn.f = "flux_ratios" =>
          fn.keys = DOMAIN flux_ratios([l \in fn.lines |-> fn.shape], fn.binned_data,
                                       fn.get_R, dust0_init).dict

-----------------------------------------------------------------------------
\* The elements whose base -log10(R) - b is zero or negative.
NonPositiveBase(i) == TempBase(fn.R[i]) \in {"zero", "neg", "ninf"}

\* C13: for every excitation ratio R with -log10(R) - b <= 0, equality
\* included, temp_calculation returns NaN for that element without raising,
\* and metallicity_calculation on that temperature returns NaN in all five
\* quantities for that element without raising; an element whose temperature
\* and flux ratios are not NaN gets no NaN from its neighbours.
C13_NonPositiveBaseNaN ==
    fn.f = "temp_values" =>
        /\ fn.exc = "none"
        /\ \A i \in 1 .. Len(fn.R) :
              /\ NonPositiveBase(i) =>
                    /\ fn.T_e[i] = "nan"
                    /\ \A q \in 1 .. Len(MetalNames) : fn.dict[MetalNames[q]][i] = "nan"
              /\ "nan" \notin {fn.T_e[i], fn.TWO_BETA[i], fn.THREE_BETA[i]} =>
                    \A q \in 1 .. Len(MetalNames) : fn.dict[MetalNames[q]][i] # "nan"

-----------------------------------------------------------------------------
\* The names that the recorded flux_ratios call stored because `line` was in
\* flux_dict: its keys less the keys of the same call without that line.
StoredFor(line) ==
    fn.keys \ DOMAIN flux_ratios([l \in fn.lines \ {line} |-> fn.shape], fn.binned_data,
                                 fn.get_R, fn.dust0).dict

FluxRatiosReturned == fn.f = "flux_ratios" /\ fn.exc = "none"

\* C14: the name under which flux_ratios stores Hgamma/Hbeta is the name the
\* dust step of fluxes_derived_prop looks it up under and the name of the
\* Hgamma/Hbeta column that compute_EBV writes; the name under which it stores
\* Hdelta/Hbeta is the name of compute_EBV's Hdelta/Hbeta column; and neither
\* is the name of the E(B-V) column.
C14_BalmerNamesAgree ==
    FluxRatiosReturned =>
        /\ line_name_short.HG \in fn.lines =>
              /\ StoredFor(line_name_short.HG) = {dust_lookup}
              /\ StoredFor(line_name_short.HG) = {col1}
              /\ col3 \notin StoredFor(line_name_short.HG)
        /\ line_name_short.HD \in fn.lines =>
              /\ StoredFor(line_name_short.HD) = {col2}
              /\ col3 \notin StoredFor(line_name_short.HD)

====
